---- MODULE Spec2Model ----
(***************************************************************************)
(* State machine of the NestedSelect widget                                *)
(* (src/src/components/NestedSelect.tsx).                                  *)
(*                                                                         *)
(* The React state cells are the variables; every event handler is one     *)
(* action.  JavaScript values that the code compares or tests for          *)
(* truthiness (identifiers) are modelled as tagged values so that the      *)
(* difference between ===, == and !x is kept.                              *)
(***************************************************************************)
EXTENDS Integers, Sequences, FiniteSets, TLC

VARIABLES
    isOpen,          \* useState(false)               line 93
    navigationPath,  \* useState<NavigationItem[]>([]) line 94
    searchQuery,     \* useState("")                  line 95
    isSearching,     \* useState(false)               line 96
    selectedItem,    \* useState<T | null>(null)      line 104
    selectedItemId,  \* prop, owned by the caller     line 62
    filterSupplied,  \* whether the filterItems prop was passed, line 86
    pendingFocus,    \* setTimeout callbacks scheduled by toggleSearch, not yet run
    inputFocused,    \* the search input element holds the focus
    lastEvent,       \* history: the handler that ran last, its argument, its onSelect calls
    prevPath,        \* history: navigationPath before the handler that ran last
    prevKind         \* history: what the handler before the last one did

vars == <<isOpen, navigationPath, searchQuery, isSearching, selectedItem,
          selectedItemId, filterSupplied, pendingFocus, inputFocused,
          lastEvent, prevPath, prevKind>>

\* The widget's own state cells (what a handler can change).
widget == <<isOpen, navigationPath, searchQuery, isSearching, selectedItem>>

----------------------------------------------------------------------------
\* Bounds of the model

\* Longest navigation path explored (Descend is not taken beyond it).
MaxPath == 3

\* Most deferred focus callbacks outstanding at once.
MaxTimers == 1

----------------------------------------------------------------------------
\* JavaScript values used as identifiers: string | number | null

Num(n) == [t |-> "number", v |-> n]
\* the decimal string of n; Str(-1) stands for the empty string ""
Str(n) == [t |-> "string", v |-> n]
Null == [t |-> "null", v |-> 0]

\* ToNumber("") is 0, ToNumber("7") is 7
ToNumber(x) == IF x.t = "string" /\ x.v = -1 THEN 0 ELSE x.v

\* !x is true for null, 0 and ""; the string "0" is truthy
Falsy(x) == x = Null \/ x = Num(0) \/ x = Str(-1)

\* a === b
StrictEq(a, b) == a = b

\* a == b : same type compares by value, number/string compares ToNumber
LooseEq(a, b) ==
    IF a.t = b.t THEN a = b
    ELSE IF {a.t, b.t} = {"number", "string"} THEN ToNumber(a) = ToNumber(b)
    ELSE FALSE

----------------------------------------------------------------------------
\* The tree passed as the items prop.  A node object is named by its index
\* in node; children are sequences of indices, in source order.
\*
\*   A(1) -+- A1(11) --- A11(111)
\*         +- A2(12)
\*   B(2)
\*   Z(0) --- Z1(5)
\*   D(3, disabled) --- D1(31)
\*   E(4, disabled)

node == <<
    [id |-> Num(1),   name |-> "A",   children |-> <<2, 4>>],
    [id |-> Num(11),  name |-> "A1",  children |-> <<3>>],
    [id |-> Num(111), name |-> "A11", children |-> <<>>],
    [id |-> Num(12),  name |-> "A2",  children |-> <<>>],
    [id |-> Num(2),   name |-> "B",   children |-> <<>>],
    [id |-> Num(0),   name |-> "Z",   children |-> <<7>>],
    [id |-> Num(5),   name |-> "Z1",  children |-> <<>>],
    [id |-> Num(3),   name |-> "D",   children |-> <<9>>],
    [id |-> Num(31),  name |-> "D1",  children |-> <<>>],
    [id |-> Num(4),   name |-> "E",   children |-> <<>>] >>

Nodes == DOMAIN node

\* the top-level sequence
items == <<1, 5, 6, 8, 10>>

\* "no item": the null of selectedItem
NoItem == 0

\* item[idKey], item[labelKey], item[childrenKey] with the default keys
idOf(item) == node[item].id
labelOf(item) == node[item].name
childrenOf(item) == node[item].children

\* the disableItem prop: the caller disables D and E
disableItem(item) == item \in {8, 10}

\* the search strings the user types
Queries == {"", "a", "x"}

\* the caller's match rule behind filterItems: "a" matches the labels that
\* start with A, "x" matches nothing
Matches(item, q) == q = "a" /\ labelOf(item) \in {"A", "A1", "A2", "A11"}

\* the values the caller passes as selectedItemId
SelectedIds == {Null, Num(2), Str(2), Num(0), Num(99)}

Range(s) == {s[i] : i \in DOMAIN s}

----------------------------------------------------------------------------
\* Pure functions of the component

\* the filterItems prop (caller code): keeps the matching items, in order
RECURSIVE filterItems(_, _)
filterItems(its, q) ==
    IF its = <<>> THEN <<>>
    ELSE IF Matches(Head(its), q)
         THEN <<Head(its)>> \o filterItems(Tail(its), q)
         ELSE filterItems(Tail(its), q)

\* lines 99-101
currentParentId ==
    IF Len(navigationPath) # 0
    THEN navigationPath[Len(navigationPath)].id
    ELSE Null

\* lines 138-149: depth-first, first match, === on the id; a match in a
\* subtree counts only when it has children
RECURSIVE findChildren(_, _)
findChildren(its, id) ==
    IF its = <<>> THEN <<>>
    ELSE LET item == Head(its)
         IN  IF StrictEq(idOf(item), id) THEN childrenOf(item)
             ELSE LET found == IF Len(childrenOf(item)) > 0
                               THEN findChildren(childrenOf(item), id)
                               ELSE <<>>
                  IN  IF Len(found) > 0 THEN found
                      ELSE findChildren(Tail(its), id)

\* lines 114-125: the lookup of the resync effect, == on the id
RECURSIVE findItem(_, _)
findItem(its, id) ==
    IF its = <<>> THEN NoItem
    ELSE LET item == Head(its)
         IN  IF LooseEq(idOf(item), id) THEN item
             ELSE LET found == IF Len(childrenOf(item)) > 0
                               THEN findItem(childrenOf(item), id)
                               ELSE NoItem
                  IN  IF found # NoItem THEN found
                      ELSE findItem(Tail(its), id)

\* lines 239-250: the lookup of handleSelectAll, === on the id
RECURSIVE findItemSelectAll(_, _)
findItemSelectAll(its, id) ==
    IF its = <<>> THEN NoItem
    ELSE LET item == Head(its)
         IN  IF StrictEq(idOf(item), id) THEN item
             ELSE LET found == IF Len(childrenOf(item)) > 0
                               THEN findItemSelectAll(childrenOf(item), id)
                               ELSE NoItem
                  IN  IF found # NoItem THEN found
                      ELSE findItemSelectAll(Tail(its), id)

\* lines 107-129: the effect that resolves selectedItemId
resolveSelected(id) ==
    IF id = Null THEN NoItem ELSE findItem(items, id)

\* lines 132-152
getCurrentItems ==
    IF Falsy(currentParentId) THEN items
    ELSE findChildren(items, currentParentId)

\* faulty variant of currentItems: the filter runs whatever the query is
currentItems_alwaysFilters ==
    IF filterSupplied
    THEN filterItems(getCurrentItems, searchQuery)
    ELSE getCurrentItems

\* faulty variant of currentItems: the filter is never applied
currentItems_neverFilters == getCurrentItems

\* lines 155-163
currentItems ==
    IF searchQuery # "" /\ filterSupplied
    THEN filterItems(getCurrentItems, searchQuery)
    ELSE getCurrentItems

\* line 334
displayItems == currentItems

\* line 172
hasChildren(item) == Len(childrenOf(item)) > 0

\* the search input is rendered (lines 353, 387): searchRef.current is set
inputMounted(open, searching) == open /\ searching

----------------------------------------------------------------------------
\* History records

Event(op, item, calls) == [op |-> op, item |-> item, calls |-> calls]

\* one invocation onSelect(item, path)
Call(item, path) == [item |-> item, path |-> path]

----------------------------------------------------------------------------
Init ==
    /\ isOpen = FALSE
    /\ navigationPath = <<>>
    /\ searchQuery = ""
    /\ isSearching = FALSE
    /\ selectedItemId \in SelectedIds
    /\ selectedItem = resolveSelected(selectedItemId)
    /\ filterSupplied \in BOOLEAN
    /\ pendingFocus = 0
    /\ inputFocused = FALSE
    /\ lastEvent = Event("mount", NoItem, <<>>)
    /\ prevPath = <<>>
    /\ prevKind = "none"

----------------------------------------------------------------------------
\* Parts of the handlers

\* faulty variant of descend: the parent id is not taken from the path
descend_rootParent(prev, item) ==
    Append(prev, [id |-> idOf(item),
                  label |-> labelOf(item),
                  parentId |-> Null])

\* lines 176-183: the functional update of the Descend
descend(prev, item) ==
    Append(prev, [id |-> idOf(item),
                  label |-> labelOf(item),
                  parentId |-> currentParentId])

\* faulty variant of sliceBack: prev.slice(1), the first entry is dropped
sliceBack_dropFirst(prev) ==
    IF Len(prev) = 0 THEN <<>> ELSE SubSeq(prev, 2, Len(prev))

\* faulty variant of sliceBack: Back returns to the root
sliceBack_toRoot(prev) == <<>>

\* line 212: prev.slice(0, -1)
sliceBack(prev) ==
    IF Len(prev) = 0 THEN <<>> ELSE SubSeq(prev, 1, Len(prev) - 1)

\* faulty variant of clickBranch: the disableItem test is missing
clickBranch_noDisableTest(item) ==
    IF hasChildren(item) THEN "descend" ELSE "select"

\* faulty variant of clickBranch: the hasChildren test is missing
clickBranch_noChildrenTest(item) ==
    IF disableItem(item) THEN "disabled" ELSE "select"

\* lines 168-174: which branch of handleItemClick an item takes
clickBranch(item) ==
    IF disableItem(item) THEN "disabled"
    ELSE IF hasChildren(item) THEN "descend"
    ELSE "select"

\* what a handler did: the branch taken for an item click, else the handler
Kind(e) == IF e.op = "itemClick" THEN clickBranch(e.item) ELSE e.op

\* the focus is on the search input only while the input is rendered
keepFocus(f, open, searching) == f /\ inputMounted(open, searching)

----------------------------------------------------------------------------
\* Event handlers

\* lines 166-208, reached from the item buttons of the open list (437)
handleItemClick(item) ==
    /\ isOpen
    /\ item \in Range(displayItems)
    /\ clickBranch(item) = "descend" => Len(navigationPath) < MaxPath
    /\ prevPath' = navigationPath
    /\ prevKind' = Kind(lastEvent)
    /\ UNCHANGED <<selectedItemId, filterSupplied, pendingFocus>>
    /\ CASE clickBranch(item) = "disabled" ->
              /\ UNCHANGED <<widget, inputFocused>>
              /\ lastEvent' = Event("itemClick", item, <<>>)
         [] clickBranch(item) = "descend" ->
              /\ navigationPath' = descend(navigationPath, item)
              /\ inputFocused' = IF isSearching
                                 THEN inputMounted(isOpen, isSearching)
                                 ELSE inputFocused
              /\ UNCHANGED <<isOpen, searchQuery, isSearching, selectedItem>>
              /\ lastEvent' = Event("itemClick", item, <<>>)
         [] OTHER ->
              /\ lastEvent' = Event("itemClick", item,
                                    <<Call(item, navigationPath)>>)
              /\ selectedItem' = item
              /\ isOpen' = FALSE
              /\ searchQuery' = ""
              /\ isSearching' = FALSE
              /\ inputFocused' = FALSE
              /\ UNCHANGED navigationPath

\* faulty variant of handleBack: setSearchQuery("") is missing
handleBack_keepQuery ==
    /\ isOpen
    /\ Len(navigationPath) > 0
    /\ prevPath' = navigationPath
    /\ prevKind' = Kind(lastEvent)
    /\ navigationPath' = sliceBack(navigationPath)
    /\ lastEvent' = Event("back", NoItem, <<>>)
    /\ UNCHANGED <<isOpen, searchQuery, isSearching, selectedItem,
                   selectedItemId, filterSupplied, pendingFocus, inputFocused>>

\* lines 211-214, reached from the Back button (361-369)
handleBack ==
    /\ isOpen
    /\ Len(navigationPath) > 0
    /\ prevPath' = navigationPath
    /\ prevKind' = Kind(lastEvent)
    /\ navigationPath' = sliceBack(navigationPath)
    /\ searchQuery' = ""
    /\ lastEvent' = Event("back", NoItem, <<>>)
    /\ UNCHANGED <<isOpen, isSearching, selectedItem, selectedItemId,
                   filterSupplied, pendingFocus, inputFocused>>

\* faulty variant of handleClose: only the open flag is reset
handleClose_onlyCloses ==
    /\ isOpen' = FALSE
    /\ UNCHANGED <<navigationPath, searchQuery, isSearching>>

\* lines 217-222
handleClose ==
    /\ isOpen' = FALSE
    /\ navigationPath' = <<>>
    /\ searchQuery' = ""
    /\ isSearching' = FALSE

\* lines 320-327: a mousedown outside componentRef
handleClickOutside ==
    /\ handleClose
    /\ prevPath' = navigationPath
    /\ prevKind' = Kind(lastEvent)
    /\ inputFocused' = FALSE
    /\ lastEvent' = Event("clickOutside", NoItem, <<>>)
    /\ UNCHANGED <<selectedItem, selectedItemId, filterSupplied, pendingFocus>>

\* faulty variant of toggleSearch: hiding the search keeps the query
toggleSearch_keepQuery ==
    /\ isOpen
    /\ ~isSearching => pendingFocus < MaxTimers
    /\ prevPath' = navigationPath
    /\ prevKind' = Kind(lastEvent)
    /\ isSearching' = ~isSearching
    /\ pendingFocus' = IF ~isSearching THEN pendingFocus + 1 ELSE pendingFocus
    /\ inputFocused' = keepFocus(inputFocused, isOpen, ~isSearching)
    /\ lastEvent' = Event("toggleSearch", NoItem, <<>>)
    /\ UNCHANGED <<isOpen, navigationPath, searchQuery, selectedItem,
                   selectedItemId, filterSupplied>>

\* lines 225-234, reached from the Search button of the open dropdown (375-383)
toggleSearch ==
    /\ isOpen
    /\ ~isSearching => pendingFocus < MaxTimers
    /\ prevPath' = navigationPath
    /\ prevKind' = Kind(lastEvent)
    /\ isSearching' = ~isSearching
    /\ IF ~isSearching
       THEN /\ pendingFocus' = pendingFocus + 1
            /\ UNCHANGED searchQuery
       ELSE /\ searchQuery' = ""
            /\ UNCHANGED pendingFocus
    /\ inputFocused' = keepFocus(inputFocused, isOpen, ~isSearching)
    /\ lastEvent' = Event("toggleSearch", NoItem, <<>>)
    /\ UNCHANGED <<isOpen, navigationPath, selectedItem, selectedItemId,
                   filterSupplied>>

\* faulty variant of focusTimeout: the focus is taken without testing that
\* the input element exists
focusTimeout_unguarded ==
    /\ pendingFocus > 0
    /\ pendingFocus' = pendingFocus - 1
    /\ prevPath' = navigationPath
    /\ prevKind' = Kind(lastEvent)
    /\ inputFocused' = TRUE
    /\ lastEvent' = Event("focusTimeout", NoItem, <<>>)
    /\ UNCHANGED <<widget, selectedItemId, filterSupplied>>

\* lines 228-230: the deferred callback runs
focusTimeout ==
    /\ pendingFocus > 0
    /\ pendingFocus' = pendingFocus - 1
    /\ prevPath' = navigationPath
    /\ prevKind' = Kind(lastEvent)
    /\ inputFocused' = IF inputMounted(isOpen, isSearching) THEN TRUE
                       ELSE inputFocused
    /\ lastEvent' = Event("focusTimeout", NoItem, <<>>)
    /\ UNCHANGED <<widget, selectedItemId, filterSupplied>>

\* line 394: typing in the search input, rendered when open and searching
handleSearchChange(q) ==
    /\ isOpen
    /\ isSearching
    /\ prevPath' = navigationPath
    /\ prevKind' = Kind(lastEvent)
    /\ searchQuery' = q
    /\ lastEvent' = Event("searchChange", NoItem, <<>>)
    /\ UNCHANGED <<isOpen, navigationPath, isSearching, selectedItem,
                   selectedItemId, filterSupplied, pendingFocus, inputFocused>>

\* lines 237-261, reached from "Select this level" (401-418; showBreadcrumb
\* and showSelectAll default to true)
handleSelectAll ==
    /\ isOpen
    /\ Len(navigationPath) > 0
    /\ prevPath' = navigationPath
    /\ prevKind' = Kind(lastEvent)
    /\ UNCHANGED <<navigationPath, selectedItemId, filterSupplied, pendingFocus>>
    /\ LET currentItem == IF Falsy(currentParentId) THEN NoItem
                          ELSE findItemSelectAll(items, currentParentId)
       IN  IF currentItem # NoItem
           THEN /\ lastEvent' = Event("selectAll", NoItem,
                                      <<Call(currentItem, navigationPath)>>)
                /\ selectedItem' = currentItem
                /\ isOpen' = FALSE
                /\ searchQuery' = ""
                /\ isSearching' = FALSE
                /\ inputFocused' = FALSE
           ELSE /\ lastEvent' = Event("selectAll", NoItem, <<>>)
                /\ UNCHANGED <<isOpen, searchQuery, isSearching, selectedItem,
                               inputFocused>>

\* faulty variant of handleTriggerClick: closing goes through the reset
handleTriggerClick_resets ==
    /\ isOpen' = ~isOpen
    /\ prevPath' = navigationPath
    /\ prevKind' = Kind(lastEvent)
    /\ navigationPath' = IF isOpen THEN <<>> ELSE navigationPath
    /\ searchQuery' = IF isOpen THEN "" ELSE searchQuery
    /\ isSearching' = IF isOpen THEN FALSE ELSE isSearching
    /\ inputFocused' = keepFocus(inputFocused, ~isOpen, isSearching')
    /\ lastEvent' = Event("trigger", NoItem, <<>>)
    /\ UNCHANGED <<selectedItem, selectedItemId, filterSupplied, pendingFocus>>

\* line 342: the trigger button
handleTriggerClick ==
    /\ isOpen' = ~isOpen
    /\ prevPath' = navigationPath
    /\ prevKind' = Kind(lastEvent)
    /\ inputFocused' = keepFocus(inputFocused, ~isOpen, isSearching)
    /\ lastEvent' = Event("trigger", NoItem, <<>>)
    /\ UNCHANGED <<navigationPath, searchQuery, isSearching, selectedItem,
                   selectedItemId, filterSupplied, pendingFocus>>

\* the caller passes another selectedItemId; the effect of lines 107-129
\* runs because its dependency changed
setSelectedItemId(id) ==
    /\ id # selectedItemId
    /\ selectedItemId' = id
    /\ selectedItem' = resolveSelected(id)
    /\ prevPath' = navigationPath
    /\ prevKind' = Kind(lastEvent)
    /\ lastEvent' = Event("setSelectedItemId", NoItem, <<>>)
    /\ UNCHANGED <<isOpen, navigationPath, searchQuery, isSearching,
                   filterSupplied, pendingFocus, inputFocused>>

Next ==
    \/ \E item \in Nodes : handleItemClick(item)
    \/ handleBack
    \/ handleClickOutside
    \/ toggleSearch
    \/ focusTimeout
    \/ \E q \in Queries : handleSearchChange(q)
    \/ handleSelectAll
    \/ handleTriggerClick
    \/ \E id \in SelectedIds : setSelectedItemId(id)

Spec == Init /\ [][Next]_vars

----------------------------------------------------------------------------
\* Vocabulary of the properties, stated on the tree and the props alone

\* a node with no children
IsLeaf(item) == item \in Nodes /\ childrenOf(item) = <<>>

\* a node with at least one child
IsGroup(item) == item \in Nodes /\ childrenOf(item) # <<>>

Enabled(item) == item \in Nodes /\ ~disableItem(item)

\* the node carrying an identifier (identifiers are unique in the tree)
NodeWithId(id) ==
    IF \E n \in Nodes : idOf(n) = id
    THEN CHOOSE n \in Nodes : idOf(n) = id
    ELSE NoItem

\* the last handler was a click on an enabled leaf / on an enabled group
LeafClicked(e) == e.op = "itemClick" /\ Enabled(e.item) /\ IsLeaf(e.item)
GroupClicked(e) == e.op = "itemClick" /\ Enabled(e.item) /\ IsGroup(e.item)
DisabledClicked(e) == e.op = "itemClick" /\ e.item \in Nodes /\ disableItem(e.item)

\* the search state is cleared
SearchCleared == searchQuery = "" /\ ~isSearching

\* the path without its last entry
WithoutLast(path) == [i \in 1..(Len(path) - 1) |-> path[i]]

----------------------------------------------------------------------------
\* C1: after a click on an enabled leaf the navigation path is empty, the
\* dropdown is closed, the search query is empty, and onSelect was invoked
\* exactly once, with that leaf and the path as it was at the click.
C1_LeafClickResetsAll ==
    LeafClicked(lastEvent) =>
        /\ navigationPath = <<>>
        /\ ~isOpen
        /\ searchQuery = ""
        /\ lastEvent.calls = <<Call(lastEvent.item, prevPath)>>

\* C2: whenever the dropdown is closed, the navigation path is empty, the
\* search query is empty and search mode is off.
C2_ClosedMeansReset ==
    ~isOpen => (navigationPath = <<>> /\ SearchCleared)

\* C3: select-this-level on a non-empty path whose last entry names a node of
\* the tree invokes onSelect exactly once, with that node and with the path
\* without its last entry.
C3_SelectAllPassesParentPath ==
    (/\ lastEvent.op = "selectAll"
     /\ prevPath # <<>>
     /\ NodeWithId(prevPath[Len(prevPath)].id) # NoItem)
    => lastEvent.calls =
           <<Call(NodeWithId(prevPath[Len(prevPath)].id), WithoutLast(prevPath))>>

\* C4: the resolved selection always equals the lookup of the externally
\* supplied selected id in the full tree (none when the id is null or not
\* found).
C4_SelectionFollowsSelectedId ==
    selectedItem = resolveSelected(selectedItemId)

\* C5: when the navigation path is non-empty and no search filtering
\* applies, the visible items are the children, in source order, of the
\* node whose identifier is the id of the last navigation entry.
C5_VisibleIsChildrenOfLast ==
    (navigationPath # <<>> /\ ~(searchQuery # "" /\ filterSupplied))
    => displayItems =
           childrenOf(NodeWithId(navigationPath[Len(navigationPath)].id))

\* C6: a click on an item for which disableItem is true changes neither the
\* navigation path, the search query, search mode, the open state nor the
\* resolved selection, and does not invoke onSelect.
C6_DisabledClickNoop ==
    [][DisabledClicked(lastEvent')
         => (UNCHANGED widget /\ lastEvent'.calls = <<>>)]_vars

\* a disabled group was clicked in the open dropdown with a search query
\* typed and a resolved selection
C6_Witness ==
    /\ DisabledClicked(lastEvent)
    /\ IsGroup(lastEvent.item)
    /\ isOpen
    /\ isSearching
    /\ searchQuery # ""
    /\ selectedItem # NoItem

\* C7: a pointer press outside the widget closes the dropdown, empties the
\* navigation path, clears the search query, turns search mode off, does
\* not invoke onSelect and does not change the resolved selection.
C7_ClickOutsideResets ==
    [][lastEvent'.op = "clickOutside"
         => /\ ~isOpen'
            /\ navigationPath' = <<>>
            /\ searchQuery' = ""
            /\ ~isSearching'
            /\ lastEvent'.calls = <<>>
            /\ selectedItem' = selectedItem]_vars

\* the press came at depth two with a resolved selection
C7_Witness ==
    /\ lastEvent.op = "clickOutside"
    /\ Len(prevPath) = 2
    /\ selectedItem # NoItem
    /\ ~isOpen

\* C8 as stated: after a Descend or a Back the search query is empty and
\* search mode is off.
C8_NavigationClearsSearch ==
    (GroupClicked(lastEvent) \/ lastEvent.op = "back") => SearchCleared

\* C8 as amended: a Back empties the search query; Back and Descend leave
\* search mode as it was, and a Descend leaves the query as it was.
C8_BackClearsQueryOnly ==
    [][/\ lastEvent'.op = "back"
            => (searchQuery' = "" /\ isSearching' = isSearching)
       /\ GroupClicked(lastEvent')
            => (searchQuery' = searchQuery /\ isSearching' = isSearching)]_vars

\* a Back right after a Descend made with search mode on
C8_Witness ==
    /\ lastEvent.op = "back"
    /\ prevKind = "descend"
    /\ isSearching
    /\ searchQuery = ""

\* C9: a Descend followed immediately by a Back yields the navigation path
\* that held before the Descend.
C9_DescendBackRestores ==
    [][(GroupClicked(lastEvent) /\ lastEvent'.op = "back")
         => navigationPath' = prevPath]_vars

\* a Back right after a Descend from depth one
C9_Witness ==
    /\ lastEvent.op = "back"
    /\ prevKind = "descend"
    /\ Len(navigationPath) = 1
    /\ Len(prevPath) = 2

\* C10: a click on an enabled node with children appends one entry with the
\* node's id and label and with the id of the previous last entry as parent
\* id (null at root); the earlier entries, the open state and the resolved
\* selection are unchanged and onSelect is not invoked.
C10_DescendAppendsEntry ==
    [][GroupClicked(lastEvent')
         => /\ navigationPath' =
                   Append(navigationPath,
                          [id |-> idOf(lastEvent'.item),
                           label |-> labelOf(lastEvent'.item),
                           parentId |-> IF navigationPath = <<>> THEN Null
                                        ELSE navigationPath[Len(navigationPath)].id])
            /\ isOpen' = isOpen
            /\ selectedItem' = selectedItem
            /\ lastEvent'.calls = <<>>]_vars

\* a Descend from depth one, with a resolved selection
C10_Witness ==
    /\ GroupClicked(lastEvent)
    /\ Len(navigationPath) = 2
    /\ navigationPath[2].parentId = navigationPath[1].id
    /\ selectedItem # NoItem


\* C11: whenever the navigation path is empty and the search query is empty,
\* the visible items are the top-level sequence of the tree, in its order.
C11_RootShowsTopLevel ==
    (navigationPath = <<>> /\ searchQuery = "") => displayItems = items

\* back at root, by a Back, in the open dropdown with a filter supplied and
\* search mode on
C11_Witness ==
    /\ navigationPath = <<>>
    /\ searchQuery = ""
    /\ lastEvent.op = "back"
    /\ isOpen
    /\ isSearching
    /\ filterSupplied
    /\ displayItems = <<1, 5, 6, 8, 10>>


\* C12: the tree lookup returns the node whose identifier equals the given
\* identifier, and not-found for an identifier that no node carries: after
\* a resync the resolved selection is that node (or none), and the lookup of
\* select-this-level finds the node named by the last navigation entry.
C12_LookupFindsEqualId ==
    /\ lastEvent.op \in {"mount", "setSelectedItemId"}
         => selectedItem = NodeWithId(selectedItemId)
    /\ navigationPath # <<>>
         => findItemSelectAll(items, currentParentId) = NodeWithId(currentParentId)


\* C13: a Back on a non-empty navigation path removes exactly the last entry
\* and keeps the earlier entries and the open state; on an empty path no
\* Back can change the widget, the Back button not being rendered there.
C13_BackRemovesLast ==
    /\ [][lastEvent'.op = "back"
            => /\ navigationPath # <<>>
               /\ navigationPath' = WithoutLast(navigationPath)
               /\ isOpen' = isOpen]_vars
    /\ [](navigationPath = <<>> => ~ENABLED handleBack)

\* a Back from depth two in the open dropdown
C13_Witness ==
    /\ lastEvent.op = "back"
    /\ Len(prevPath) = 2
    /\ navigationPath = <<prevPath[1]>>
    /\ isOpen
    /\ prevKind # "descend"


\* C14: onSelect is invoked only by a leaf click or by select-this-level, at
\* most once per handler; an invocation made by an item click carries the
\* clicked node, which has no children.
C14_OnSelectOnlyFromSelection ==
    /\ Len(lastEvent.calls) <= 1
    /\ lastEvent.calls # <<>>
         => \/ lastEvent.op = "selectAll"
            \/ /\ lastEvent.op = "itemClick"
               /\ IsLeaf(lastEvent.item)
               /\ lastEvent.calls[1].item = lastEvent.item

\* select-this-level handed a node with children to onSelect
C14_Witness ==
    /\ lastEvent.op = "selectAll"
    /\ lastEvent.calls # <<>>
    /\ IsGroup(lastEvent.calls[1].item)
    /\ prevKind = "descend"

\* C15: with a non-empty search query and a filter supplied, the visible
\* items are the filter's result on the unfiltered list of the current
\* level; without a filter, or with an empty query, they are that list.
C15_VisibleIsFilteredBase ==
    displayItems =
        IF searchQuery # "" /\ filterSupplied
        THEN SelectSeq(getCurrentItems, LAMBDA item : Matches(item, searchQuery))
        ELSE getCurrentItems

\* a filter is supplied and the typed query hides some item of a deeper level
C15_Witness ==
    /\ isOpen
    /\ filterSupplied
    /\ searchQuery = "a"
    /\ navigationPath # <<>>
    /\ displayItems # <<>>
    /\ displayItems # getCurrentItems


\* the number of levels of a forest
RECURSIVE DepthOf(_)
DepthOf(its) ==
    IF its = <<>> THEN 0
    ELSE LET below == 1 + DepthOf(childrenOf(Head(its)))
             rest == DepthOf(Tail(its))
         IN  IF below > rest THEN below ELSE rest

\* a path is a root-to-node chain of the tree
IsChain(path) ==
    \A i \in DOMAIN path :
        LET n == NodeWithId(path[i].id)
        IN  /\ n # NoItem
            /\ IsGroup(n)
            /\ IF i = 1
               THEN /\ n \in Range(items)
                    /\ path[i].parentId = Null
               ELSE /\ NodeWithId(path[i - 1].id) # NoItem
                    /\ n \in Range(childrenOf(NodeWithId(path[i - 1].id)))
                    /\ path[i].parentId = path[i - 1].id

\* C16: every reachable navigation path is a root-to-node chain of the tree
\* (first entry a top-level node, each later entry a child of the one
\* before, parent ids linked, every named node with children), so its
\* length never exceeds the depth of the tree.
C16_PathIsChain ==
    /\ IsChain(navigationPath)
    /\ Len(navigationPath) <= DepthOf(items)


\* C17: onSelect is never invoked with a node for which disableItem is true,
\* and no navigation entry names such a node.
C17_DisabledNeverSelected ==
    /\ \A i \in DOMAIN lastEvent.calls : ~disableItem(lastEvent.calls[i].item)
    /\ \A i \in DOMAIN navigationPath :
           \A n \in Nodes :
               idOf(n) = navigationPath[i].id => ~disableItem(n)

\* a leaf was selected right after a click on a disabled item of the same
\* list
C17_Witness ==
    /\ LeafClicked(lastEvent)
    /\ lastEvent.calls # <<>>
    /\ prevKind = "disabled"

\* C18: in every reachable state a non-empty search query implies that
\* search mode is on.
C18_QueryOnlyWhileSearching ==
    searchQuery # "" => isSearching

\* search was hidden right after typing, and the query is gone
C18_Witness ==
    /\ lastEvent.op = "toggleSearch"
    /\ prevKind = "searchChange"
    /\ ~isSearching
    /\ searchQuery = ""
    /\ isOpen


C20_FocusCallbackHarmless ==
    [][lastEvent'.op = "focusTimeout"
         => /\ UNCHANGED widget
            /\ inputFocused' = (isOpen /\ isSearching)]_vars

\* the callback fired after a leaf selection had closed the dropdown, and
\* focused nothing
C20_Witness ==
    /\ lastEvent.op = "focusTimeout"
    /\ prevKind = "select"
    /\ ~isOpen
    /\ ~inputFocused

====
